---- MODULE Spec2Model ----
(***************************************************************************)
(* Model of onnx/defs/data_type_utils.cc: the StringRange slice, the       *)
(* TypesWrapper registry of element type names, the type-string codec      *)
(* (DataTypeUtils::FromString / ToString) and the interning table of       *)
(* DataTypeUtils::ToType / ToTypeProto guarded by GetTypeStrLock().        *)
(*                                                                         *)
(* C++ strings are TLA+ strings; a character is a string of length one.    *)
(* A pointer into a character buffer is a 0-based offset into that buffer. *)
(***************************************************************************)
EXTENDS Integers, Sequences, FiniteSets, TLC

----------------------------------------------------------------------------
(* Bounds of the model.                                                    *)

\* number of caller threads
NumThreads == 2
\* calls started over one behaviour of the interner
MaxCalls == 3
\* longest whitespace run placed in a generated type string
MaxWs == 2
\* most dimensions of the shape of a generated TypeProto
MaxDims == 2

----------------------------------------------------------------------------
(* TensorProto::DataType codes used by TypesWrapper::TypesWrapper.         *)

TensorProto_DataType_UNDEFINED == 0
TensorProto_DataType_FLOAT == 1
TensorProto_DataType_UINT8 == 2
TensorProto_DataType_INT8 == 3
TensorProto_DataType_UINT16 == 4
TensorProto_DataType_INT16 == 5
TensorProto_DataType_INT32 == 6
TensorProto_DataType_INT64 == 7
TensorProto_DataType_STRING == 8
TensorProto_DataType_BOOL == 9
TensorProto_DataType_FLOAT16 == 10
TensorProto_DataType_DOUBLE == 11
TensorProto_DataType_UINT32 == 12
TensorProto_DataType_UINT64 == 13
TensorProto_DataType_COMPLEX64 == 14
TensorProto_DataType_COMPLEX128 == 15

----------------------------------------------------------------------------
(* StringRange: data_ and size_ delimit the valid range of buf; start_ and *)
(* end_ delimit the captured range.                                        *)

\* isspace() in the "C" locale ('\v' has no TLA+ escape and is never generated)
isspace(c) == c \in {" ", "\t", "\n", "\f", "\r"}

\* the bytes [p, p + n) of a buffer (what memcmp and std::string(p, n) read)
Bytes(buf, p, n) == SubSeq(buf, p + 1, p + n)

\* StringRange::operator[]
At(r, idx) == Bytes(r.buf, r.data_ + idx, 1)

\* the member initialisers of the StringRange constructors, before LAndRStrip()
RawRange(buf, p, n) == [buf |-> buf, data_ |-> p, size_ |-> n, start_ |-> p, end_ |-> p]

\* std::string(s.Data(), s.Size())
RangeText(r) == Bytes(r.buf, r.data_, r.size_)

StartsWith(r, str) ==
    /\ r.size_ >= str.size_
    /\ Bytes(r.buf, r.data_, str.size_) = Bytes(str.buf, str.data_, str.size_)

EndsWith(r, str) ==
    /\ r.size_ >= str.size_
    /\ Bytes(r.buf, r.data_ + (r.size_ - str.size_), str.size_)
           = Bytes(str.buf, str.data_, str.size_)

\* LStrip(size_t) refusing to strip the whole range
LStripSize_Strict(r, size) ==
    IF size < r.size_
    THEN [ok |-> TRUE,
          r |-> [r EXCEPT !.data_ = @ + size, !.size_ = @ - size, !.end_ = @ + size]]
    ELSE [ok |-> FALSE, r |-> r]

\* bool LStrip(size_t size)
LStripSize(r, size) ==
    IF size <= r.size_
    THEN [ok |-> TRUE,
          r |-> [r EXCEPT !.data_ = @ + size, !.size_ = @ - size, !.end_ = @ + size]]
    ELSE [ok |-> FALSE, r |-> r]

\* the while loop of LStrip(): count of leading whitespace bytes from count on
RECURSIVE LCount(_, _)
LCount(r, count) ==
    IF count < r.size_ /\ isspace(At(r, count)) THEN LCount(r, count + 1) ELSE count

\* bool LStrip()
LStrip(r) ==
    IF LCount(r, 0) > 0 THEN LStripSize(r, LCount(r, 0)) ELSE [ok |-> FALSE, r |-> r]

\* bool LStrip(StringRange str)
LStripStr(r, str) ==
    IF StartsWith(r, str) THEN LStripSize(r, str.size_) ELSE [ok |-> FALSE, r |-> r]

\* bool RStrip(size_t size)
RStripSize(r, size) ==
    IF r.size_ >= size
    THEN [ok |-> TRUE, r |-> [r EXCEPT !.size_ = @ - size]]
    ELSE [ok |-> FALSE, r |-> r]

\* the while loop of RStrip(): ptr starts at data_ + size_ - 1 and moves down
RECURSIVE RCount(_, _)
RCount(r, count) ==
    IF count < r.size_ /\ isspace(At(r, r.size_ - 1 - count))
    THEN RCount(r, count + 1) ELSE count

\* bool RStrip()
RStrip(r) ==
    IF RCount(r, 0) > 0 THEN RStripSize(r, RCount(r, 0)) ELSE [ok |-> FALSE, r |-> r]

\* bool RStrip(StringRange str)
RStripStr(r, str) ==
    IF EndsWith(r, str) THEN RStripSize(r, str.size_) ELSE [ok |-> FALSE, r |-> r]

\* bool LAndRStrip()
LAndRStrip(r) ==
    LET l == LStrip(r)
        rr == RStrip(l.r)
    IN  [ok |-> l.ok \/ rr.ok, r |-> rr.r]

\* StringRange(const std::string&) and StringRange(const char*)
StringRange(str) == LAndRStrip(RawRange(str, 0, Len(str))).r

\* ParensWhitespaceStrip() without the LAndRStrip() that follows the "("
ParensWhitespaceStrip_NoInnerStrip(r) ==
    LET s1 == LStrip(r).r
        s2 == LStripStr(s1, StringRange("(")).r
        s4 == RStripStr(s2, StringRange(")")).r
    IN  RStrip(s4).r

\* void ParensWhitespaceStrip()
ParensWhitespaceStrip(r) ==
    LET s1 == LStrip(r).r
        s2 == LStripStr(s1, StringRange("(")).r
        s3 == LAndRStrip(s2).r
        s4 == RStripStr(s3, StringRange(")")).r
    IN  RStrip(s4).r

----------------------------------------------------------------------------
(* TypesWrapper: the registry of element type names.                       *)

\* the assignments type_str_to_tensor_data_type_[...] = ... of the constructor
TypeStrToCode ==
    ("float" :> TensorProto_DataType_FLOAT) @@
    ("float16" :> TensorProto_DataType_FLOAT16) @@
    ("double" :> TensorProto_DataType_DOUBLE) @@
    ("int8" :> TensorProto_DataType_INT8) @@
    ("int16" :> TensorProto_DataType_INT16) @@
    ("int32" :> TensorProto_DataType_INT32) @@
    ("int64" :> TensorProto_DataType_INT64) @@
    ("uint8" :> TensorProto_DataType_UINT8) @@
    ("uint16" :> TensorProto_DataType_UINT16) @@
    ("uint32" :> TensorProto_DataType_UINT32) @@
    ("uint64" :> TensorProto_DataType_UINT64) @@
    ("complext64" :> TensorProto_DataType_COMPLEX64) @@
    ("complext128" :> TensorProto_DataType_COMPLEX128) @@
    ("string" :> TensorProto_DataType_STRING) @@
    ("bool" :> TensorProto_DataType_BOOL)

\* TypesWrapper::TypesWrapper(): the two derived tables are filled by the loop
TypesWrapper ==
    [type_str_to_tensor_data_type_ |-> TypeStrToCode,
     tensor_data_type_to_type_str_ |->
         [c \in {TypeStrToCode[n] : n \in DOMAIN TypeStrToCode} |->
             CHOOSE n \in DOMAIN TypeStrToCode : TypeStrToCode[n] = c],
     allowed_data_types_ |-> DOMAIN TypeStrToCode]

\* bool IsValidDataTypeString(type_str)
IsValidDataTypeString(t, type_str) == type_str \in t.allowed_data_types_

\* unordered_map::operator[] on type_str_to_tensor_data_type_: a missing key
\* is inserted with a value-initialised int
TypeStrIndex(t, type_str) ==
    IF type_str \in DOMAIN t.type_str_to_tensor_data_type_
    THEN t
    ELSE [t EXCEPT !.type_str_to_tensor_data_type_ = @ @@ (type_str :> 0)]

\* void FromDataTypeString(type_str, tensor_data_type); ndebug tells whether
\* the build compiles assert() away. abort: the assertion stopped the process.
FromDataTypeString(t, ndebug, type_str) ==
    IF ~ndebug /\ ~IsValidDataTypeString(t, type_str)
    THEN [abort |-> TRUE, e |-> TensorProto_DataType_UNDEFINED, types |-> t]
    ELSE [abort |-> FALSE,
          e |-> TypeStrIndex(t, type_str).type_str_to_tensor_data_type_[type_str],
          types |-> TypeStrIndex(t, type_str)]

\* what dereferencing the end() iterator in ToDataTypeString can yield when
\* it does not fault: an arbitrary string
EndDeref == {"", "?"}

\* std::string ToDataTypeString(tensor_data_type): the set of outcomes
ToDataTypeString(t, ndebug, tensor_data_type) ==
    IF tensor_data_type \in DOMAIN t.tensor_data_type_to_type_str_
    THEN {[abort |-> FALSE, str |-> t.tensor_data_type_to_type_str_[tensor_data_type]]}
    ELSE IF ~ndebug
         THEN {[abort |-> TRUE, str |-> ""]}
         ELSE {[abort |-> TRUE, str |-> ""]}
              \cup {[abort |-> FALSE, str |-> g] : g \in EndDeref}

----------------------------------------------------------------------------
(* TypeProto and the codec.                                                *)

\* TypeProto after Clear(): no member of the oneof is set
ClearedProto ==
    [value_case |-> "VALUE_NOT_SET", elem_type |-> 0, has_shape |-> FALSE, dim |-> <<>>]

\* mutable_tensor_type()->set_elem_type(e) on a cleared TypeProto
TensorProtoOf(e) ==
    [value_case |-> "kTensorType", elem_type |-> e, has_shape |-> FALSE, dim |-> <<>>]

\* the scalar branch of FromString without its call of mutable_shape()
ScalarProtoOf_NoShape(e) ==
    [value_case |-> "kTensorType", elem_type |-> e, has_shape |-> FALSE, dim |-> <<>>]

\* the same, followed by mutable_shape()
ScalarProtoOf(e) ==
    [value_case |-> "kTensorType", elem_type |-> e, has_shape |-> TRUE, dim |-> <<>>]

\* void FromString(type_str, type_proto)
FromString(t, ndebug, type_str) ==
    LET s == StringRange(type_str)
        l == LStripStr(s, StringRange("tensor"))
    IN  IF l.ok
        THEN LET s2 == ParensWhitespaceStrip(l.r)
                 d == FromDataTypeString(t, ndebug, RangeText(s2))
             IN  [abort |-> d.abort,
                  type_proto |-> IF d.abort THEN ClearedProto ELSE TensorProtoOf(d.e),
                  types |-> d.types]
        ELSE LET d == FromDataTypeString(t, ndebug, RangeText(s))
             IN  [abort |-> d.abort,
                  type_proto |-> IF d.abort THEN ClearedProto ELSE ScalarProtoOf(d.e),
                  types |-> d.types]

\* ToString whose scalar test is dim_size() == 0 alone, without has_shape()
ProtoToString_NoHasShape(t, ndebug, type_proto, left, right) ==
    IF type_proto.value_case = "kTensorType"
    THEN IF Len(type_proto.dim) = 0
         THEN {[abort |-> o.abort,
                str |-> IF o.abort THEN "" ELSE left \o o.str \o right] :
                   o \in ToDataTypeString(t, ndebug, type_proto.elem_type)}
         ELSE {[abort |-> o.abort,
                str |-> IF o.abort THEN "" ELSE left \o "tensor(" \o o.str \o ")" \o right] :
                   o \in ToDataTypeString(t, ndebug, type_proto.elem_type)}
    ELSE IF ~ndebug
         THEN {[abort |-> TRUE, str |-> ""]}
         ELSE {[abort |-> FALSE, str |-> ""]}

\* ToString whose tensor branch does not append right
ProtoToString_DropRight(t, ndebug, type_proto, left, right) ==
    IF type_proto.value_case = "kTensorType"
    THEN IF type_proto.has_shape /\ Len(type_proto.dim) = 0
         THEN {[abort |-> o.abort,
                str |-> IF o.abort THEN "" ELSE left \o o.str \o right] :
                   o \in ToDataTypeString(t, ndebug, type_proto.elem_type)}
         ELSE {[abort |-> o.abort,
                str |-> IF o.abort THEN "" ELSE left \o "tensor(" \o o.str \o ")"] :
                   o \in ToDataTypeString(t, ndebug, type_proto.elem_type)}
    ELSE IF ~ndebug
         THEN {[abort |-> TRUE, str |-> ""]}
         ELSE {[abort |-> FALSE, str |-> ""]}

\* std::string DataTypeUtils::ToString(type_proto, left, right): the set of
\* outcomes (named ProtoToString: the TLC module defines ToString)
ProtoToString(t, ndebug, type_proto, left, right) ==
    IF type_proto.value_case = "kTensorType"
    THEN IF type_proto.has_shape /\ Len(type_proto.dim) = 0
         THEN {[abort |-> o.abort,
                str |-> IF o.abort THEN "" ELSE left \o o.str \o right] :
                   o \in ToDataTypeString(t, ndebug, type_proto.elem_type)}
         ELSE {[abort |-> o.abort,
                str |-> IF o.abort THEN "" ELSE left \o "tensor(" \o o.str \o ")" \o right] :
                   o \in ToDataTypeString(t, ndebug, type_proto.elem_type)}
    ELSE IF ~ndebug
         THEN {[abort |-> TRUE, str |-> ""]}
         ELSE {[abort |-> FALSE, str |-> ""]}

----------------------------------------------------------------------------
(* State.                                                                  *)

VARIABLES
    NDEBUG,      \* the build: TRUE when assert() is compiled away
    aborted,     \* the process was stopped by a failed assert() or a fault
    types,       \* the static TypesWrapper of GetTypesWrapper()
    map,         \* the static map of GetTypeStrToProtoMap(), as its set of nodes
    lock,        \* the static mutex of GetTypeStrLock(): its owner, or NoThread
    pc,          \* per thread: the statement it is at
    op,          \* per thread: the function it called last
    type_str,    \* per thread: the argument of ToType(const std::string&)
    type_proto,  \* per thread: the argument of ToType(const TypeProto&)
    data_type,   \* per thread: the argument of ToTypeProto
    typeStr,     \* per thread: the local typeStr of ToType
    ret,         \* per thread: the DataType that ToType returned, NullType if none
    retProto,    \* per thread: the TypeProto that ToTypeProto returned
    issued,      \* the DataTypes returned so far, each with the string it points to
    calls,       \* number of calls started
    ctext,       \* codec run: the type string given to FromString
    cdeco,       \* codec run: <<left, right>> given to ToString
    cstage,      \* codec run: "text", then "proto" after FromString, then "string";
                 \* or "descriptor", then "formatted" after ToString
    cproto,      \* codec run: the TypeProto that FromString filled
    cout,        \* codec run: the string that ToString returned
    range,       \* slice run: the StringRange under test
    sop,         \* slice run: the member function called last
    sarg,        \* slice run: its argument, [n: a size, str: a string]
    sok,         \* slice run: the bool it returned, FALSE when it returns none
    sfound,      \* slice run: the index it returned, 0 when it is not Find
    captured,    \* slice run: the StringRange it returned, a default-constructed
                 \* one when it is not GetCaptured
    sreads,      \* slice run: the offsets of range.buf that the last call read
    restarted,   \* slice run: RestartCapture has been called
    removed      \* slice run: the bytes taken from the front since RestartCapture
                 \* was last called (since construction before that)

vars == <<NDEBUG, aborted, types, map, lock, pc, op, type_str, type_proto, data_type,
          typeStr, ret, retProto, issued, calls, ctext, cdeco, cstage, cproto, cout,
          range, sop, sarg, sok, sfound, captured, sreads, restarted, removed>>

sliceVars == <<range, sop, sarg, sok, sfound, captured, sreads, restarted, removed>>

internerVars == <<map, lock, pc, op, type_str, type_proto, data_type, typeStr, ret,
                  retProto, issued, calls>>
codecVars == <<ctext, cdeco, cstage, cproto, cout>>

Threads == 1..NumThreads
NoThread == 0
NullType == 0

\* the canonical element names
Names == DOMAIN TypeStrToCode

----------------------------------------------------------------------------
(* Inputs of the codec runs.                                               *)

\* a whitespace run of k bytes, alternating ' ' and '\t'
RECURSIVE WsRun(_)
WsRun(k) == IF k = 0 THEN "" ELSE WsRun(k - 1) \o (IF k % 2 = 1 THEN " " ELSE "\t")

WsLens == 0..MaxWs

\* "tensor", an opening parenthesis if lp, the name, a closing one if rp,
\* with whitespace runs of a, b, c, d, e bytes around the pieces
TensorText(E, a, b, lp, c, d, rp, e) ==
    WsRun(a) \o "tensor" \o WsRun(b) \o (IF lp THEN "(" ELSE "") \o WsRun(c)
        \o E \o WsRun(d) \o (IF rp THEN ")" ELSE "") \o WsRun(e)

ScalarText(E, a, e) == WsRun(a) \o E \o WsRun(e)

\* strings that name no element type
BadNames == {"notatype", "", "tensor", "Float", "flo at", "complex64", "(float)"}

CodecTexts ==
    {TensorText(E, a, b, TRUE, c, d, TRUE, e) :
        E \in Names, a \in WsLens, b \in WsLens, c \in WsLens, d \in WsLens, e \in WsLens}
    \cup {TensorText(E, 0, b, lp, 0, d, rp, 0) :
        E \in Names \cup BadNames, b \in WsLens, d \in WsLens, lp \in BOOLEAN, rp \in BOOLEAN}
    \cup {ScalarText(E, a, e) : E \in Names \cup BadNames, a \in WsLens, e \in WsLens}

Decorations == {<<"", "">>, <<"(", ")">>}

\* a shape of k dimensions
RECURSIVE DimSeq(_)
DimSeq(k) == IF k = 0 THEN <<>> ELSE Append(DimSeq(k - 1), k + 1)

\* the TypeProtos given to ToString: every element type, without shape and
\* with a shape of 0..MaxDims dimensions, and a TypeProto with no value set
CodecProtos ==
    {[value_case |-> "kTensorType", elem_type |-> TypeStrToCode[E],
      has_shape |-> FALSE, dim |-> <<>>] : E \in Names}
    \cup {[value_case |-> "kTensorType", elem_type |-> TypeStrToCode[E],
           has_shape |-> TRUE, dim |-> DimSeq(k)] : E \in Names, k \in 0..MaxDims}
    \cup {ClearedProto}

----------------------------------------------------------------------------
(* The codec, one run: FromString on ctext, then ToString on the result.   *)

InitBuild ==
    /\ NDEBUG \in BOOLEAN
    /\ aborted = FALSE
    /\ types = TypesWrapper

InitInterner ==
    /\ map = {}
    /\ lock = NoThread
    /\ pc = [t \in Threads |-> "idle"]
    /\ op = [t \in Threads |-> "none"]
    /\ type_str = [t \in Threads |-> ""]
    /\ type_proto = [t \in Threads |-> ClearedProto]
    /\ data_type = [t \in Threads |-> NullType]
    /\ typeStr = [t \in Threads |-> ""]
    /\ ret = [t \in Threads |-> NullType]
    /\ retProto = [t \in Threads |-> ClearedProto]
    /\ issued = {}
    /\ calls = 0

\* no slice run: range is a default-constructed StringRange
InitNoSlice ==
    /\ range = RawRange("", 0, 0)
    /\ sop = "StringRange"
    /\ sarg = [n |-> 0, str |-> ""]
    /\ sok = FALSE
    /\ sfound = 0
    /\ captured = RawRange("", 0, 0)
    /\ sreads = {}
    /\ restarted = FALSE
    /\ removed = ""

InitCodec ==
    /\ InitBuild
    /\ InitInterner
    /\ InitNoSlice
    /\ cdeco \in Decorations
    /\ cout = ""
    /\ \/ /\ ctext \in CodecTexts
          /\ cstage = "text"
          /\ cproto = ClearedProto
       \/ /\ ctext = ""
          /\ cstage = "descriptor"
          /\ cproto \in CodecProtos

\* DataTypeUtils::FromString(ctext, cproto)
CodecFromString ==
    /\ ~aborted
    /\ cstage = "text"
    /\ LET f == FromString(types, NDEBUG, ctext)
       IN  /\ aborted' = f.abort
           /\ types' = f.types
           /\ cproto' = f.type_proto
           /\ cstage' = IF f.abort THEN "text" ELSE "proto"
    /\ UNCHANGED <<NDEBUG, ctext, cdeco, cout>>
    /\ UNCHANGED internerVars
    /\ UNCHANGED sliceVars

\* DataTypeUtils::ToString(cproto, left, right)
CodecToString ==
    /\ ~aborted
    /\ cstage \in {"proto", "descriptor"}
    /\ \E o \in ProtoToString(types, NDEBUG, cproto, cdeco[1], cdeco[2]) :
           /\ aborted' = o.abort
           /\ cout' = o.str
           /\ cstage' = IF o.abort THEN cstage
                        ELSE IF cstage = "proto" THEN "string" ELSE "formatted"
    /\ UNCHANGED <<NDEBUG, types, ctext, cdeco, cproto>>
    /\ UNCHANGED internerVars
    /\ UNCHANGED sliceVars

NextCodec == CodecFromString \/ CodecToString

SpecCodec == InitCodec /\ [][NextCodec]_vars

----------------------------------------------------------------------------
(* The type-string grammar, written without the StringRange operations:    *)
(*   tensor_form := "tensor" ws* "(" ws* element_name ws* ")"              *)
(*   scalar_form := element_name                                           *)

Whitespace == {" ", "\t", "\n", "\f", "\r"}

RECURSIVE SkipWs(_)
SkipWs(s) == IF s # "" /\ SubSeq(s, 1, 1) \in Whitespace THEN SkipWs(Tail(s)) ELSE s

RECURSIVE DropWs(_)
DropWs(s) ==
    IF s # "" /\ SubSeq(s, Len(s), Len(s)) \in Whitespace
    THEN DropWs(SubSeq(s, 1, Len(s) - 1)) ELSE s

Trimmed(s) == DropWs(SkipWs(s))

HasPrefix(s, p) == Len(s) >= Len(p) /\ SubSeq(s, 1, Len(p)) = p
HasSuffix(s, p) == Len(s) >= Len(p) /\ SubSeq(s, Len(s) - Len(p) + 1, Len(s)) = p

NoElem == "<none>"

\* the element name of a tensor_form, NoElem when the text is none
TensorFormElem(text) ==
    LET t0 == Trimmed(text)
        t1 == SkipWs(SubSeq(t0, 7, Len(t0)))
        t2 == SubSeq(t1, 2, Len(t1) - 1)
    IN  IF /\ HasPrefix(t0, "tensor")
           /\ HasPrefix(t1, "(")
           /\ Len(t1) >= 2
           /\ HasSuffix(t1, ")")
           /\ Trimmed(t2) \in Names
        THEN Trimmed(t2) ELSE NoElem

\* the element name of a scalar_form, NoElem when the text is none
ScalarFormElem(text) == IF Trimmed(text) \in Names THEN Trimmed(text) ELSE NoElem

InGrammar(text) == TensorFormElem(text) # NoElem \/ ScalarFormElem(text) # NoElem

\* FromString has returned and has filled cproto
Parsed == cstage \in {"proto", "string"}

----------------------------------------------------------------------------
(* Claims about the codec, checked under SpecCodec.                        *)

\* C3 (as claimed): FromString of a string that names no element type, such as
\* "tensor(notatype)", "notatype", "tensor" or "", neither stops the process
\* nor yields a descriptor whose element type is the default
\* TensorProto_DataType_UNDEFINED.
C3_InvalidRejected ==
    (cstage \in {"text", "proto", "string"}
         /\ ctext \in {"tensor(notatype)", "notatype", "tensor", ""}) =>
        /\ ~aborted
        /\ Parsed => cproto.elem_type # TensorProto_DataType_UNDEFINED

\* C4: for every canonical element name E, ToString(FromString(E)) = E and
\* ToString(FromString("tensor(E)")) = "tensor(E)", with empty left and right.
C4_RoundTrip ==
    \A E \in Names :
        /\ ctext \in {E, "tensor(" \o E \o ")"} => ~aborted
        /\ (cstage = "string" /\ cdeco = <<"", "">> /\ ctext = E) => cout = E
        /\ (cstage = "string" /\ cdeco = <<"", "">> /\ ctext = "tensor(" \o E \o ")")
               => cout = "tensor(" \o E \o ")"

C4_Witness ==
    /\ cstage = "string" /\ cdeco = <<"", "">>
    /\ ctext = "tensor(complext128)" /\ cout = "tensor(complext128)"

\* C5: FromString(E) yields a tensor descriptor with a shape that has no
\* dimension, FromString("tensor(E)") one without shape; both carry the code
\* of E, and the two differ.
C5_ScalarVsTensor ==
    \A E \in Names :
        /\ (Parsed /\ ctext = E) =>
               /\ cproto.value_case = "kTensorType"
               /\ cproto.elem_type = TypeStrToCode[E]
               /\ cproto.has_shape /\ Len(cproto.dim) = 0
               /\ cproto # FromString(types, NDEBUG, "tensor(" \o E \o ")").type_proto
        /\ (Parsed /\ ctext = "tensor(" \o E \o ")") =>
               /\ cproto.value_case = "kTensorType"
               /\ cproto.elem_type = TypeStrToCode[E]
               /\ ~cproto.has_shape
               /\ cproto # FromString(types, NDEBUG, E).type_proto

C5_Witness == Parsed /\ ctext = "uint16" /\ cproto.has_shape /\ cproto.elem_type = 4

\* C6: with any amount of whitespace before "tensor", between "tensor" and
\* "(", between "(" and E, between E and ")" and after ")", FromString succeeds
\* and yields the descriptor of "tensor(E)"; E surrounded by whitespace yields
\* the descriptor of E.
C6_WhitespaceRobust ==
    /\ TensorFormElem(ctext) # NoElem =>
           /\ ~aborted
           /\ Parsed => cproto = FromString(TypesWrapper, NDEBUG,
                                    "tensor(" \o TensorFormElem(ctext) \o ")").type_proto
    /\ ScalarFormElem(ctext) # NoElem =>
           /\ ~aborted
           /\ Parsed => cproto = FromString(TypesWrapper, NDEBUG,
                                            ScalarFormElem(ctext)).type_proto

C6_Witness ==
    /\ Parsed
    /\ ctext = TensorText("int32", 2, 1, TRUE, 1, 2, TRUE, 2)
    /\ cproto = TensorProtoOf(TensorProto_DataType_INT32)

\* C7 (as claimed): FromString yields a descriptor with a registered element
\* type only for a text that matches the grammar; "tensorfloat", "tensor float",
\* "tensor(float" and "tensor float)" are rejected.
C7_OnlyGrammarAccepted ==
    (Parsed /\ cproto.elem_type \in DOMAIN types.tensor_data_type_to_type_str_)
        => InGrammar(ctext)

----------------------------------------------------------------------------
(* The interning table. A node of the unordered_map is                     *)
(* [addr, first, second]: its address, its key and its TypeProto; a        *)
(* DataType is the address of a node's key, which rehashing never moves.   *)

InternStrings == {"float", "tensor(float)", " tensor( float ) ", "notatype"}

\* tensor(float) with a shape of one dimension
ShapedProto ==
    [value_case |-> "kTensorType", elem_type |-> TensorProto_DataType_FLOAT,
     has_shape |-> TRUE, dim |-> <<2>>]

InternProtos == {TensorProtoOf(TensorProto_DataType_FLOAT), ShapedProto}

\* map.find(key) != map.end()
Contains(m, key) == \E n \in m : n.first = key

\* *map.begin() in the place of *map.find(key)
Find_Begin(m, key) == CHOOSE n \in m : \A o \in m : n.addr <= o.addr

\* *map.find(key), for a key that is found
Find(m, key) == CHOOSE n \in m : n.first = key

\* the node that a DataType points into
NodeAt(m, dt) == CHOOSE n \in m : n.addr = dt

\* map[key] = value that drops every other node
MapAssign_Evict(m, key, value) ==
    {[addr |-> Cardinality(m) + 1, first |-> key, second |-> value]}

\* map[key] = value: operator[] finds the node of key or allocates one with a
\* default TypeProto, then the TypeProto is assigned
MapAssign(m, key, value) ==
    IF Contains(m, key)
    THEN {IF n.first = key THEN [n EXCEPT !.second = value] ELSE n : n \in m}
    ELSE m \cup {[addr |-> Cardinality(m) + 1, first |-> key, second |-> value]}

\* a lock_guard constructor that does not wait for the mutex
CanLock_NoWait(l) == TRUE

\* std::lock_guard<std::mutex> lock(GetTypeStrLock()) can return
CanLock(l) == l = NoThread

\* a test that always takes the insertion branch
Absent_Always(m, key) == TRUE

\* GetTypeStrToProtoMap().find(typeStr) == GetTypeStrToProtoMap().end()
Absent(m, key) == ~Contains(m, key)

\* a lookup that parses the key again instead of reading the stored TypeProto
Stored_Reparsed(m, dt) == FromString(TypesWrapper, TRUE, NodeAt(m, dt).first).type_proto

\* it->second for it = map.find(*data_type)
Stored(m, dt) == Find(m, NodeAt(m, dt).first).second

Idle(t) == pc[t] = "idle"

\* ToType(const std::string&) is called: FromString(type_str, type)
ToType_FromString(t, s) ==
    /\ ~aborted /\ Idle(t) /\ calls < MaxCalls
    /\ LET f == FromString(types, NDEBUG, s)
       IN  /\ aborted' = f.abort
           /\ types' = f.types
           /\ type_proto' = [type_proto EXCEPT ![t] = f.type_proto]
           /\ pc' = [pc EXCEPT ![t] = IF f.abort THEN "FromString" ELSE "ToString"]
    /\ op' = [op EXCEPT ![t] = "ToType(string)"]
    /\ type_str' = [type_str EXCEPT ![t] = s]
    /\ data_type' = [data_type EXCEPT ![t] = NullType]
    /\ typeStr' = [typeStr EXCEPT ![t] = ""]
    /\ ret' = [ret EXCEPT ![t] = NullType]
    /\ retProto' = [retProto EXCEPT ![t] = ClearedProto]
    /\ calls' = calls + 1
    /\ UNCHANGED <<NDEBUG, map, lock, issued>>
    /\ UNCHANGED codecVars
    /\ UNCHANGED sliceVars

\* ToType(const TypeProto&) is called by the user
ToType_Call(t, p) ==
    /\ ~aborted /\ Idle(t) /\ calls < MaxCalls
    /\ op' = [op EXCEPT ![t] = "ToType(TypeProto)"]
    /\ type_proto' = [type_proto EXCEPT ![t] = p]
    /\ pc' = [pc EXCEPT ![t] = "ToString"]
    /\ type_str' = [type_str EXCEPT ![t] = ""]
    /\ data_type' = [data_type EXCEPT ![t] = NullType]
    /\ typeStr' = [typeStr EXCEPT ![t] = ""]
    /\ ret' = [ret EXCEPT ![t] = NullType]
    /\ retProto' = [retProto EXCEPT ![t] = ClearedProto]
    /\ calls' = calls + 1
    /\ UNCHANGED <<NDEBUG, aborted, types, map, lock, issued>>
    /\ UNCHANGED codecVars
    /\ UNCHANGED sliceVars

\* auto typeStr = ToString(type_proto)
ToType_ToString(t) ==
    /\ ~aborted /\ pc[t] = "ToString"
    /\ \E o \in ProtoToString(types, NDEBUG, type_proto[t], "", "") :
           /\ aborted' = o.abort
           /\ typeStr' = [typeStr EXCEPT ![t] = o.str]
           /\ pc' = [pc EXCEPT ![t] = IF o.abort THEN "ToString" ELSE "lock"]
    /\ UNCHANGED <<NDEBUG, types, map, lock, op, type_str, type_proto, data_type, ret,
                   retProto, issued, calls>>
    /\ UNCHANGED codecVars
    /\ UNCHANGED sliceVars

\* std::lock_guard<std::mutex> lock(GetTypeStrLock()) in ToType
ToType_Lock(t) ==
    /\ ~aborted /\ pc[t] = "lock"
    /\ CanLock(lock)
    /\ lock' = t
    /\ pc' = [pc EXCEPT ![t] = "find"]
    /\ UNCHANGED <<NDEBUG, aborted, types, map, op, type_str, type_proto, data_type,
                   typeStr, ret, retProto, issued, calls>>
    /\ UNCHANGED codecVars
    /\ UNCHANGED sliceVars

\* if (GetTypeStrToProtoMap().find(typeStr) == GetTypeStrToProtoMap().end())
ToType_Find(t) ==
    /\ ~aborted /\ pc[t] = "find"
    /\ pc' = [pc EXCEPT ![t] = IF Absent(map, typeStr[t]) THEN "insert" ELSE "return"]
    /\ UNCHANGED <<NDEBUG, aborted, types, map, lock, op, type_str, type_proto,
                   data_type, typeStr, ret, retProto, issued, calls>>
    /\ UNCHANGED codecVars
    /\ UNCHANGED sliceVars

\* GetTypeStrToProtoMap()[typeStr] = type_proto
ToType_Insert(t) ==
    /\ ~aborted /\ pc[t] = "insert"
    /\ map' = MapAssign(map, typeStr[t], type_proto[t])
    /\ pc' = [pc EXCEPT ![t] = "return"]
    /\ UNCHANGED <<NDEBUG, aborted, types, lock, op, type_str, type_proto, data_type,
                   typeStr, ret, retProto, issued, calls>>
    /\ UNCHANGED codecVars
    /\ UNCHANGED sliceVars

\* return &(GetTypeStrToProtoMap().find(typeStr)->first), and ~lock_guard; the
\* locals typeStr and, in ToType(const std::string&), type go out of scope
ToType_Return(t) ==
    /\ ~aborted /\ pc[t] = "return"
    /\ ret' = [ret EXCEPT ![t] = Find(map, typeStr[t]).addr]
    /\ issued' = issued \cup {[str |-> typeStr[t], handle |-> Find(map, typeStr[t]).addr]}
    /\ lock' = NoThread
    /\ pc' = [pc EXCEPT ![t] = "idle"]
    /\ typeStr' = [typeStr EXCEPT ![t] = ""]
    /\ type_proto' = [type_proto EXCEPT ![t] =
                         IF op[t] = "ToType(string)" THEN ClearedProto ELSE @]
    /\ UNCHANGED <<NDEBUG, aborted, types, map, op, type_str, data_type, retProto, calls>>
    /\ UNCHANGED codecVars
    /\ UNCHANGED sliceVars

\* ToTypeProto(data_type) is called with a DataType that ToType returned
ToTypeProto_Call(t, dt) ==
    /\ ~aborted /\ Idle(t) /\ calls < MaxCalls
    /\ op' = [op EXCEPT ![t] = "ToTypeProto"]
    /\ data_type' = [data_type EXCEPT ![t] = dt]
    /\ pc' = [pc EXCEPT ![t] = "lockP"]
    /\ type_str' = [type_str EXCEPT ![t] = ""]
    /\ type_proto' = [type_proto EXCEPT ![t] = ClearedProto]
    /\ typeStr' = [typeStr EXCEPT ![t] = ""]
    /\ ret' = [ret EXCEPT ![t] = NullType]
    /\ retProto' = [retProto EXCEPT ![t] = ClearedProto]
    /\ calls' = calls + 1
    /\ UNCHANGED <<NDEBUG, aborted, types, map, lock, issued>>
    /\ UNCHANGED codecVars
    /\ UNCHANGED sliceVars

\* std::lock_guard<std::mutex> lock(GetTypeStrLock()) in ToTypeProto
ToTypeProto_Lock(t) ==
    /\ ~aborted /\ pc[t] = "lockP"
    /\ CanLock(lock)
    /\ lock' = t
    /\ pc' = [pc EXCEPT ![t] = "findP"]
    /\ UNCHANGED <<NDEBUG, aborted, types, map, op, type_str, type_proto, data_type,
                   typeStr, ret, retProto, issued, calls>>
    /\ UNCHANGED codecVars
    /\ UNCHANGED sliceVars

\* auto it = map.find(*data_type); assert(it != end()); return it->second
ToTypeProto_Return(t) ==
    /\ ~aborted /\ pc[t] = "findP"
    /\ retProto' = [retProto EXCEPT ![t] = Stored(map, data_type[t])]
    /\ lock' = NoThread
    /\ pc' = [pc EXCEPT ![t] = "idle"]
    /\ UNCHANGED <<NDEBUG, aborted, types, map, op, type_str, type_proto, data_type,
                   typeStr, ret, issued, calls>>
    /\ UNCHANGED codecVars
    /\ UNCHANGED sliceVars

Init ==
    /\ InitBuild
    /\ InitInterner
    /\ InitNoSlice
    /\ ctext = ""
    /\ cdeco = <<"", "">>
    /\ cstage = "text"
    /\ cproto = ClearedProto
    /\ cout = ""

Next ==
    \E t \in Threads :
        \/ \E s \in InternStrings : ToType_FromString(t, s)
        \/ \E p \in InternProtos : ToType_Call(t, p)
        \/ ToType_ToString(t)
        \/ ToType_Lock(t)
        \/ ToType_Find(t)
        \/ ToType_Insert(t)
        \/ ToType_Return(t)
        \/ \E i \in issued : ToTypeProto_Call(t, i.handle)
        \/ ToTypeProto_Lock(t)
        \/ ToTypeProto_Return(t)

Spec == Init /\ [][Next]_vars

\* the statements of a call in progress on thread t
Step(t) ==
    \/ ToType_ToString(t)
    \/ ToType_Lock(t)
    \/ ToType_Find(t)
    \/ ToType_Insert(t)
    \/ ToType_Return(t)
    \/ ToTypeProto_Lock(t)
    \/ ToTypeProto_Return(t)

\* the arguments of the calls made under fair scheduling: a type string, a
\* text that is none, and a TypeProto
FairStrings == {"tensor(float)", "notatype"}
FairProtos == {TensorProtoOf(TensorProto_DataType_FLOAT)}

NextFair ==
    \E t \in Threads :
        \/ \E s \in FairStrings : ToType_FromString(t, s)
        \/ \E p \in FairProtos : ToType_Call(t, p)
        \/ \E i \in issued : ToTypeProto_Call(t, i.handle)
        \/ Step(t)

\* Fair scheduling: a thread whose next statement can run again and again does
\* run it; for a thread waiting in lock_guard that is when the mutex is free
\* again and again.
SpecFair ==
    /\ Init
    /\ [][NextFair]_vars
    /\ \A t \in Threads : SF_vars(Step(t))

----------------------------------------------------------------------------
(* Claims about the interning table, checked under Spec.                   *)

\* the canonical string of a text of the grammar, NoElem for any other text
CanonOf(text) ==
    IF TensorFormElem(text) # NoElem THEN "tensor(" \o TensorFormElem(text) \o ")"
    ELSE ScalarFormElem(text)

\* thread t has returned from ToType with a DataType
Returned(t) == Idle(t) /\ ret[t] # NullType

\* thread t has returned from ToType(const std::string&) on a text of the grammar
ReturnedValid(t) ==
    Returned(t) /\ op[t] = "ToType(string)" /\ CanonOf(type_str[t]) # NoElem

\* the statements that read or write the map
Critical == {"find", "insert", "return", "findP"}

\* C1: threads that call ToType concurrently on strings of one canonical form
\* all receive the same DataType, the map holds exactly one node for that
\* canonical string, and no two threads are at a statement that accesses the
\* map at the same time.
C1_ConcurrentIntern ==
    /\ \A t1, t2 \in Threads :
           (ReturnedValid(t1) /\ ReturnedValid(t2)
                /\ CanonOf(type_str[t1]) = CanonOf(type_str[t2])) => ret[t1] = ret[t2]
    /\ \A t \in Threads :
           ReturnedValid(t) =>
               Cardinality({n \in map : n.first = CanonOf(type_str[t])}) = 1
    /\ \A t1, t2 \in Threads :
           (t1 # t2 /\ pc[t1] \in Critical) => pc[t2] \notin Critical

C1_Witness ==
    \E t1, t2 \in Threads :
        /\ t1 # t2 /\ ReturnedValid(t1) /\ ReturnedValid(t2)
        /\ type_str[t1] = "tensor(float)" /\ type_str[t2] = " tensor( float ) "
        /\ ret[t1] = ret[t2]
        /\ calls = 2

\* C2: a DataType returned for a text of the grammar points to the canonical
\* string of that text; every DataType returned so far for one canonical
\* string is the same; and ToType(FromString(s)) returns what ToType(s) returns.
C2_InternIdempotent ==
    /\ \A t \in Threads :
           ReturnedValid(t) =>
               /\ \E n \in map : n.addr = ret[t] /\ n.first = CanonOf(type_str[t])
               /\ [str |-> CanonOf(type_str[t]), handle |-> ret[t]] \in issued
    /\ \A i1, i2 \in issued : i1.str = i2.str => i1.handle = i2.handle
    /\ \A t1, t2 \in Threads :
           (ReturnedValid(t1) /\ Returned(t2) /\ op[t2] = "ToType(TypeProto)"
                /\ type_proto[t2] = FromString(TypesWrapper, NDEBUG, type_str[t1]).type_proto)
               => ret[t1] = ret[t2]

C2_Witness ==
    \E t1, t2 \in Threads :
        /\ ReturnedValid(t1) /\ type_str[t1] = " tensor( float ) "
        /\ Returned(t2) /\ op[t2] = "ToType(TypeProto)"
        /\ type_proto[t2] = TensorProtoOf(TensorProto_DataType_FLOAT)
        /\ ret[t1] = ret[t2]
        /\ Cardinality(map) = 2

\* C8: the only step that changes the map is the insertion of a call of
\* ToType whose string is not yet a key, and it adds exactly one node; a call
\* whose string is a key skips the insertion; ToTypeProto never changes the map.
C8_InternFrame ==
    [][ /\ \A t \in Threads :
               (pc[t] = "insert" /\ pc'[t] = "return") =>
                   /\ ~Contains(map, typeStr[t])
                   /\ map \subseteq map'
                   /\ Cardinality(map') = Cardinality(map) + 1
                   /\ Contains(map', typeStr[t])
        /\ (\A t \in Threads : ~(pc[t] = "insert" /\ pc'[t] = "return")) => map' = map
        /\ \A t \in Threads :
               (pc[t] = "find" /\ pc'[t] # "find") =>
                   pc'[t] = IF Contains(map, typeStr[t]) THEN "return" ELSE "insert"
      ]_vars

C8_Witness ==
    \E t1, t2 \in Threads :
        /\ t1 # t2 /\ Returned(t1) /\ Returned(t2) /\ ret[t1] = ret[t2]
        /\ Cardinality(map) = 1
        /\ calls = 2

\* C9: a string that is a key of the map stays a key in every later state, and
\* the number of nodes never decreases.
C9_Monotonic ==
    [][ /\ {n.first : n \in map} \subseteq {n.first : n \in map'}
        /\ Cardinality(map') >= Cardinality(map) ]_vars

C9_Witness ==
    /\ Cardinality(map) >= 2
    /\ \E t \in Threads : op[t] = "ToTypeProto" /\ Idle(t)

\* C10: the node of a DataType keeps the TypeProto of the call that inserted
\* it, through every later step, and ToTypeProto returns that TypeProto, also
\* after ToType was called with another TypeProto of the same string.
C10_ResolveStable ==
    [][ /\ \A n \in map : n \in map'
        /\ \A t \in Threads :
               (pc[t] = "insert" /\ pc'[t] = "return") =>
                   \E n \in map' \ map : n.first = typeStr[t] /\ n.second = type_proto[t]
        /\ \A t \in Threads :
               (pc[t] = "findP" /\ pc'[t] = "idle") =>
                   \E n \in map : n.addr = data_type[t] /\ retProto'[t] = n.second
      ]_vars

C10_Witness ==
    \E t1, t2 \in Threads :
        /\ op[t1] = "ToTypeProto" /\ Idle(t1)
        /\ retProto[t1] = TensorProtoOf(TensorProto_DataType_FLOAT)
        /\ op[t2] = "ToType(TypeProto)" /\ Returned(t2)
        /\ type_proto[t2] = ShapedProto
        /\ ret[t2] = data_type[t1]

----------------------------------------------------------------------------
(* Further claims about the codec, checked under SpecCodec.                *)

\* the name that the element type table gives to a code
NameOfCode(c) == CHOOSE n \in Names : TypeStrToCode[n] = c

\* C11: ToString(type_proto, left, right) of a tensor TypeProto returns
\* left + name + right when the shape is present without dimension, and
\* left + "tensor(" + name + ")" + right when the shape is absent or has one or
\* more dimensions; with empty left and right that is the canonical string.
C11_Format ==
    (cstage \in {"descriptor", "formatted"} /\ cproto.value_case = "kTensorType") =>
        /\ ~aborted
        /\ cstage = "formatted" =>
               cout = IF cproto.has_shape /\ Len(cproto.dim) = 0
                      THEN cdeco[1] \o NameOfCode(cproto.elem_type) \o cdeco[2]
                      ELSE cdeco[1] \o "tensor(" \o NameOfCode(cproto.elem_type) \o ")"
                               \o cdeco[2]

C11_Witness ==
    /\ cstage = "formatted"
    /\ cdeco = <<"(", ")">>
    /\ cproto.dim = <<2>>
    /\ cout = "(tensor(int64))"

\* C13 (as claimed): ToString of a TypeProto whose value is not a tensor type
\* never returns a string (so that ToType, which calls it first, cannot go on
\* to add a node under the returned string).
C13_UnsupportedFails ==
    (cstage \in {"descriptor", "formatted"} /\ cproto.value_case # "kTensorType") =>
        cstage = "descriptor"

----------------------------------------------------------------------------
(* Further claims about the registry and the interning table, checked      *)
(* under Spec.                                                             *)

\* C12 (as claimed): after its construction the registry is never changed by
\* any call, whether its input is valid or not.
C12_RegistryImmutable == types = TypesWrapper

\* thread t2 has returned from ToTypeProto on the DataType that ToType returned
\* to thread t1 for a text of the grammar
Resolved(t1, t2) ==
    /\ ReturnedValid(t1)
    /\ Idle(t2) /\ op[t2] = "ToTypeProto" /\ data_type[t2] = ret[t1]

\* C18 (as claimed): ToTypeProto(ToType(s)) is the TypeProto that FromString
\* gives for s, whatever calls of ToType came before.
C18_Original ==
    \A t1, t2 \in Threads :
        Resolved(t1, t2) =>
            retProto[t2] = FromString(types, NDEBUG, type_str[t1]).type_proto

\* C18: ToTypeProto(ToType(s)) is a tensor TypeProto with the element type of
\* FromString(s) and with the same string as FromString(s); it is the TypeProto
\* that FromString gives for s unless its shape has one or more dimensions (the
\* string was first inserted by ToType(const TypeProto&) with such a shape).
C18_ResolveParsed ==
    \A t1, t2 \in Threads :
        Resolved(t1, t2) =>
            LET p == FromString(types, NDEBUG, type_str[t1]).type_proto
                q == retProto[t2]
            IN  /\ q.value_case = "kTensorType"
                /\ q.elem_type = p.elem_type
                /\ ProtoToString(types, NDEBUG, q, "", "")
                       = ProtoToString(types, NDEBUG, p, "", "")
                /\ q = p \/ (q.has_shape /\ Len(q.dim) >= 1)

\* "tensor(float)" resolves to the TypeProto with a dimension that was interned
\* first, and "float" to the TypeProto that FromString gives
C18_Witness ==
    \E t1, t2 \in Threads :
        /\ Resolved(t1, t2)
        /\ type_str[t1] = "tensor(float)"
        /\ retProto[t2] = ShapedProto

\* C19: two DataTypes that ToType has returned are equal exactly when their
\* strings are equal, so those of "float" and "tensor(float)" differ, and the
\* node a returned DataType points into keeps its string through every later
\* insertion.
C19_Injective ==
    /\ \A i1, i2 \in issued : i1.handle = i2.handle <=> i1.str = i2.str
    /\ \A i \in issued : \E n \in map : n.addr = i.handle /\ n.first = i.str
    /\ \A n1, n2 \in map : n1.addr = n2.addr => n1 = n2

C19_Witness ==
    /\ \E i1, i2 \in issued :
           i1.str = "float" /\ i2.str = "tensor(float)" /\ i1.handle < i2.handle
    /\ \E t \in Threads : op[t] = "ToType(TypeProto)" /\ Returned(t)

\* C20 (as claimed): a call of ToType(const std::string&) on a text that is
\* not of the grammar never inserts into the map.
C20_InvalidLeavesTable ==
    [][ \A t \in Threads :
            (op[t] = "ToType(string)" /\ CanonOf(type_str[t]) = NoElem
                 /\ pc[t] # pc'[t]) => map' = map ]_vars

----------------------------------------------------------------------------
(* StringRange on its own: one object over a small buffer, its member      *)
(* functions called in any order.                                          *)

MaxBufLen == 3

\* std::string::npos is size_t(-1)
npos == -1

SliceAlphabet == {"a", " ", "("}

\* the buffers: every string over SliceAlphabet of at most n bytes
RECURSIVE StringsUpTo(_)
StringsUpTo(n) ==
    IF n = 0 THEN {""}
    ELSE StringsUpTo(n - 1) \cup
         {b \o c : b \in {x \in StringsUpTo(n - 1) : Len(x) = n - 1}, c \in SliceAlphabet}

SliceBufs == StringsUpTo(MaxBufLen)

\* arguments of LStrip(size_t) and RStrip(size_t): sizes up to one past the buffer
StripSizes == 0..(MaxBufLen + 1)

\* arguments of the functions taking a StringRange, converted from const char*
StripTexts == {"(", " a"}

\* arguments of Find
FindChars == {"a", "("}

\* the offsets read by the while loop of LStrip(): *ptr is read for each
\* count up to the one that stops the loop, and only after count < size_ held
LStripReads(r) == {r.data_ + k : k \in {j \in 0..LCount(r, 0) : j < r.size_}}

\* the while loop of RStrip() reading *ptr before it tests count < size_
RStripReads_NoGuard(r) == {r.data_ + r.size_ - 1 - k : k \in 0..RCount(r, 0)}

\* the offsets read by the while loop of RStrip()
RStripReads(r) ==
    {r.data_ + r.size_ - 1 - k : k \in {j \in 0..RCount(r, 0) : j < r.size_}}

\* the offsets memcmp reads in StartsWith: none when size_ < str.size_
StartsWithReads(r, str) ==
    IF r.size_ >= str.size_ THEN r.data_ .. (r.data_ + str.size_ - 1) ELSE {}

\* the offsets memcmp reads in EndsWith
EndsWithReads(r, str) ==
    IF r.size_ >= str.size_
    THEN (r.data_ + (r.size_ - str.size_)) .. (r.data_ + r.size_ - 1)
    ELSE {}

LAndRStripReads(r) == LStripReads(r) \cup RStripReads(LStrip(r).r)

ParensWhitespaceStripReads(r) ==
    LET s1 == LStrip(r).r
        s2 == LStripStr(s1, StringRange("(")).r
        s3 == LAndRStrip(s2).r
        s4 == RStripStr(s3, StringRange(")")).r
    IN  LStripReads(r) \cup StartsWithReads(s1, StringRange("(")) \cup
        LAndRStripReads(s2) \cup EndsWithReads(s3, StringRange(")")) \cup
        RStripReads(s4)

\* size_t Find(const char ch): the while loop from idx on
RECURSIVE FindChar(_, _, _)
FindChar(r, ch, idx) ==
    IF idx < r.size_
    THEN IF At(r, idx) = ch THEN idx ELSE FindChar(r, ch, idx + 1)
    ELSE npos

FindReads(r, ch) ==
    LET f == FindChar(r, ch, 0)
    IN  r.data_ .. (r.data_ + (IF f = npos THEN r.size_ ELSE f + 1) - 1)

\* void RestartCapture()
RestartCapture(r) == [r EXCEPT !.start_ = r.data_, !.end_ = r.data_]

\* StringRange GetCaptured(): StringRange(start_, end_ - start_), whose
\* constructor calls LAndRStrip()
GetCaptured(r) == LAndRStrip(RawRange(r.buf, r.start_, r.end_ - r.start_)).r

GetCapturedReads(r) == LAndRStripReads(RawRange(r.buf, r.start_, r.end_ - r.start_))

otherVars == <<NDEBUG, aborted, types, internerVars, codecVars>>

\* The only assert of StringRange, p_data != nullptr, cannot fail on these
\* buffers, so one build stands for both.
InitSlice ==
    /\ NDEBUG = FALSE
    /\ aborted = FALSE
    /\ types = TypesWrapper
    /\ InitInterner
    /\ ctext = "" /\ cdeco = <<"", "">> /\ cstage = "text"
    /\ cproto = ClearedProto /\ cout = ""
    /\ \E buf \in SliceBufs : range = StringRange(buf)
    /\ sop = "StringRange"
    /\ sarg = [n |-> 0, str |-> ""]
    /\ sok = FALSE
    /\ sfound = 0
    /\ captured = RawRange("", 0, 0)
    /\ sreads = {}
    /\ restarted = FALSE
    /\ removed = ""

\* a call of a strip function: res is what the operator returned, rd the
\* offsets read; removed gains the bytes by which data_ moved
SliceStrip(name, arg, res, rd) ==
    /\ sop' = name
    /\ sarg' = arg
    /\ sok' = res.ok
    /\ range' = res.r
    /\ sreads' = rd
    /\ removed' = removed \o Bytes(range.buf, range.data_, res.r.data_ - range.data_)
    /\ sfound' = 0
    /\ captured' = RawRange("", 0, 0)
    /\ UNCHANGED restarted
    /\ UNCHANGED otherVars

\* a call of a const member function
SliceTest(name, arg, ok, found, rd) ==
    /\ sop' = name
    /\ sarg' = arg
    /\ sok' = ok
    /\ sfound' = found
    /\ sreads' = rd
    /\ captured' = RawRange("", 0, 0)
    /\ UNCHANGED <<range, restarted, removed>>
    /\ UNCHANGED otherVars

NoArg == [n |-> 0, str |-> ""]

Slice_LStrip == SliceStrip("LStrip", NoArg, LStrip(range), LStripReads(range))

Slice_LStripSize(n) ==
    SliceStrip("LStripSize", [n |-> n, str |-> ""], LStripSize(range, n), {})

Slice_LStripStr(text) ==
    SliceStrip("LStripStr", [n |-> 0, str |-> text],
               LStripStr(range, StringRange(text)),
               StartsWithReads(range, StringRange(text)))

Slice_RStrip == SliceStrip("RStrip", NoArg, RStrip(range), RStripReads(range))

Slice_RStripSize(n) ==
    SliceStrip("RStripSize", [n |-> n, str |-> ""], RStripSize(range, n), {})

Slice_RStripStr(text) ==
    SliceStrip("RStripStr", [n |-> 0, str |-> text],
               RStripStr(range, StringRange(text)),
               EndsWithReads(range, StringRange(text)))

Slice_LAndRStrip ==
    SliceStrip("LAndRStrip", NoArg, LAndRStrip(range), LAndRStripReads(range))

\* ParensWhitespaceStrip() returns void: sok records whether anything went
Slice_ParensWhitespaceStrip ==
    SliceStrip("ParensWhitespaceStrip", NoArg,
               [ok |-> ParensWhitespaceStrip(range) # range,
                r |-> ParensWhitespaceStrip(range)],
               ParensWhitespaceStripReads(range))

Slice_StartsWith(text) ==
    SliceTest("StartsWith", [n |-> 0, str |-> text],
              StartsWith(range, StringRange(text)), 0,
              StartsWithReads(range, StringRange(text)))

Slice_EndsWith(text) ==
    SliceTest("EndsWith", [n |-> 0, str |-> text],
              EndsWith(range, StringRange(text)), 0,
              EndsWithReads(range, StringRange(text)))

Slice_Find(ch) ==
    SliceTest("Find", [n |-> 0, str |-> ch],
              FindChar(range, ch, 0) # npos, FindChar(range, ch, 0),
              FindReads(range, ch))

Slice_RestartCapture ==
    /\ sop' = "RestartCapture"
    /\ sarg' = NoArg
    /\ range' = RestartCapture(range)
    /\ sreads' = {}
    /\ restarted' = TRUE
    /\ removed' = ""
    /\ sok' = FALSE
    /\ sfound' = 0
    /\ captured' = RawRange("", 0, 0)
    /\ UNCHANGED otherVars

Slice_GetCaptured ==
    /\ sop' = "GetCaptured"
    /\ sarg' = NoArg
    /\ captured' = GetCaptured(range)
    /\ sreads' = GetCapturedReads(range)
    /\ sok' = FALSE
    /\ sfound' = 0
    /\ UNCHANGED <<range, restarted, removed>>
    /\ UNCHANGED otherVars

NextSlice ==
    \/ Slice_LStrip
    \/ \E n \in StripSizes : Slice_LStripSize(n)
    \/ \E text \in StripTexts : Slice_LStripStr(text)
    \/ Slice_RStrip
    \/ \E n \in StripSizes : Slice_RStripSize(n)
    \/ \E text \in StripTexts : Slice_RStripStr(text)
    \/ Slice_LAndRStrip
    \/ Slice_ParensWhitespaceStrip
    \/ \E text \in StripTexts : Slice_StartsWith(text)
    \/ \E text \in StripTexts : Slice_EndsWith(text)
    \/ \E ch \in FindChars : Slice_Find(ch)
    \/ Slice_RestartCapture
    \/ Slice_GetCaptured

SpecSlice == InitSlice /\ [][NextSlice]_vars

----------------------------------------------------------------------------
(* Claims about StringRange, checked under SpecSlice.                      *)

\* C14 (as claimed): after RestartCapture the captured range is empty, and
\* from then on GetCaptured returns exactly the bytes that the left-side strips
\* have taken off the front of the range since, whitespace included, whatever
\* the right-side strips did in between.
C14_CapturedIsRemoved ==
    /\ sop = "RestartCapture" => range.start_ = range.end_
    /\ (sop = "GetCaptured" /\ restarted) => RangeText(captured) = removed

\* C15: a strip that reports failure (a size larger than the range, a prefix
\* or suffix that does not match, no whitespace at that edge) leaves the range
\* and the capture window as they were; a strip that succeeds removes exactly
\* the given number of bytes, the length of the matched string, or the maximal
\* run of whitespace, from the stated edge only.
C15_Step ==
    LET before == RangeText(range)
        after == RangeText(range')
        right(r) == r.data_ + r.size_
        arg == Trimmed(sarg'.str)
        strips == {"LStrip", "LStripSize", "LStripStr", "RStrip", "RStripSize",
                   "RStripStr", "LAndRStrip"}
        cut(n) ==
            IF sop' \in {"LStrip", "LStripSize", "LStripStr"}
            THEN /\ range'.data_ = range.data_ + n
                 /\ right(range') = right(range)
                 /\ range'.start_ = range.start_
                 /\ range'.end_ = range.end_ + n
            ELSE /\ range'.data_ = range.data_
                 /\ range'.size_ = range.size_ - n
                 /\ range'.start_ = range.start_
                 /\ range'.end_ = range.end_
    IN  /\ (sop' \in strips /\ ~sok') => range' = range
        /\ sop' \in strips => range'.buf = range.buf
        /\ sop' \in {"LStripSize", "RStripSize"} =>
               /\ sok' <=> sarg'.n <= Len(before)
               /\ sok' => cut(sarg'.n)
        /\ sop' = "LStripStr" =>
               /\ sok' <=> HasPrefix(before, arg)
               /\ sok' => cut(Len(arg))
        /\ sop' = "RStripStr" =>
               /\ sok' <=> HasSuffix(before, arg)
               /\ sok' => cut(Len(arg))
        /\ sop' = "LStrip" =>
               /\ sok' <=> SkipWs(before) # before
               /\ sok' => cut(Len(before) - Len(SkipWs(before))) /\ after = SkipWs(before)
        /\ sop' = "RStrip" =>
               /\ sok' <=> DropWs(before) # before
               /\ sok' => cut(Len(before) - Len(DropWs(before))) /\ after = DropWs(before)

C15_StripExact == [][C15_Step]_vars

\* a prefix strip that did not match
C15_Witness ==
    sop = "LStripStr" /\ sarg.str = "(" /\ ~sok /\ RangeText(range) = "a ("

\* C16: the range and the capture window lie inside the buffer, those of the
\* range that GetCaptured returns too, and every call reads only offsets of the
\* buffer, on an empty range as well.
InBuffer(r) ==
    /\ 0 <= r.data_ /\ 0 <= r.size_ /\ r.data_ + r.size_ <= Len(r.buf)
    /\ 0 <= r.start_ /\ r.start_ <= r.end_ /\ r.end_ <= Len(r.buf)

C16_InBounds ==
    /\ InBuffer(range)
    /\ InBuffer(captured)
    /\ sreads \subseteq 0..(Len(range.buf) - 1)

\* RStrip() on an empty range that starts at the first byte of the buffer
C16_Witness ==
    sop = "RStrip" /\ range.data_ = 0 /\ range.size_ = 0 /\ sreads = {} /\ ~sok
====
